---- MODULE Spec2Model ----
(***************************************************************************)
(* Model of the TaskMonitor of the Hive Mind wizard                        *)
(* (apps/cortex-os/packages/agents/src/legacy-instructions/wizard.ts).     *)
(*                                                                         *)
(* Time is counted in seconds (1 unit = 1000 ms): the interval timer has   *)
(* period 1, the start threshold is 2, the grace delay is 3.               *)
(* progress is a float in the code (Math.random() * 5 per tick); it is     *)
(* modelled by integers, the per-tick increment drawn from Increments.     *)
(***************************************************************************)
EXTENDS Integers, Sequences, FiniteSets, TLC

\* ---------------------------------------------------------------- bounds
MaxTime == 4        \* the clock stops advancing here
MaxInflight == 2    \* tick callbacks of one id suspended at their await
MaxSessions == 2    \* startMonitoring calls per id that begin a session
MaxLog == 2         \* "Progress update" entries a log may receive

\* ------------------------------------------------------ program constants
StartThreshold == 2     \* elapsed > 2000 ms
CompleteThreshold == 95 \* the final else of the step buckets
EtaFloor == 10          \* progress.progress > 10
MaxProgress == 100      \* Math.min(100, ...)

\* startMonitoring takes any string: the empty id is one of the inputs
TaskIds == {"", "t1"}
Increments == {0, 2, 4} \* Math.random() * 5, a value of [0, 5)

VARIABLES
    activeMonitors,  \* keys of the Map activeMonitors (id -> interval handle)
    intervals,       \* id -> number of live (uncleared) interval timers for id
    progressData,    \* the Map progressData: a function keys -> TaskProgress
    listeners,       \* id -> number of once-listeners of task-<id>-completed
    inflight,        \* id -> tick callbacks suspended at await getInstance()
    graceTimers,     \* id -> pending setTimeout(stopMonitoring, 3000)
    emitted,         \* id -> number of emits of task-<id>-completed
    fired,           \* id -> the interval already fired in this second
    now,             \* Date.now(), in seconds
    session,         \* history: id -> number of sessions begun
    startedAt,       \* history: id -> clock value when the session began
    exited,          \* process.exit has been called
    lastOp,          \* history: the last operation, its id and its outcome
    bar,             \* displayProgress: a progress value and its rendered bar
    ops,             \* scripts/ci/ops-readiness.sh: its shell variables
    toast            \* NotificationToast: the component and its timer

vars == <<activeMonitors, intervals, progressData, listeners, inflight,
          graceTimers, emitted, fired, now, session, startedAt, exited,
          lastOp, bar, ops, toast>>

\* the variables of the other programs of the repository
aux == <<bar, ops, toast>>

\* the variables of the TaskMonitor
monitorVars == <<activeMonitors, intervals, progressData, listeners, inflight,
                 graceTimers, emitted, fired, now, session, startedAt, exited,
                 lastOp>>

Min(a, b) == IF a < b THEN a ELSE b

\* Math.round(a / b) for a >= 0, b > 0
Round(a, b) == (2 * a + b) \div (2 * b)

\* (variant: the record is created as already running)
FreshProgressRunning ==
    [status |-> "running", progress |-> 0, currentStep |-> "Initializing...",
     hasEta |-> FALSE, estimatedTimeRemaining |-> 0, logs |-> <<>>]

\* (variant: startMonitoring logs a first entry when it creates the record)
FreshProgressLogged ==
    [status |-> "pending", progress |-> 0, currentStep |-> "Initializing...",
     hasEta |-> FALSE, estimatedTimeRemaining |-> 0,
     logs |-> <<[timestamp |-> 1, level |-> "info",
                 message |-> "Monitoring started"]>>]

\* the record startMonitoring stores
FreshProgress ==
    [status |-> "pending", progress |-> 0, currentStep |-> "Initializing...",
     hasEta |-> FALSE, estimatedTimeRemaining |-> 0, logs |-> <<>>]

\* currentTime - (progress.logs[0]?.timestamp.getTime() || currentTime)
Elapsed(progress, currentTime) ==
    IF progress.logs = <<>> \/ progress.logs[1].timestamp = 0
    THEN 0
    ELSE currentTime - progress.logs[1].timestamp

\* the label chosen from the progress value
StepLabel(p) ==
    IF p < 25 THEN "Analyzing requirements..."
    ELSE IF p < 50 THEN "Executing implementation..."
    ELSE IF p < 75 THEN "Running validation..."
    ELSE IF p < CompleteThreshold THEN "Finalizing results..."
    ELSE "Completing task..."

\* if (progress.status === "pending" && elapsed > 2000) { ... }
StartIfDue(progress, currentTime) ==
    IF progress.status = "pending" /\ Elapsed(progress, currentTime) > StartThreshold
    THEN [progress EXCEPT
            !.status = "running",
            !.currentStep = "Processing task...",
            !.logs = Append(@, [timestamp |-> currentTime, level |-> "info",
                                message |-> "Task execution started"])]
    ELSE progress

\* (variant: the progress block runs whatever the status is)
AdvanceAnyStatus(progress, currentTime, inc, roll) ==
    LET p == Min(MaxProgress, progress.progress + inc)
        el == Elapsed(progress, currentTime)
        done == ~(p < CompleteThreshold)
        lg == IF roll
              THEN Append(progress.logs,
                          [timestamp |-> currentTime, level |-> "info",
                           message |-> "Progress update"])
              ELSE progress.logs
    IN  [progress EXCEPT
           !.progress = p,
           !.currentStep = StepLabel(p),
           !.status = IF done THEN "completed" ELSE @,
           !.logs = lg,
           !.hasEta = IF p > EtaFloor THEN TRUE ELSE @,
           !.estimatedTimeRemaining =
               IF p > EtaFloor THEN Round((MaxProgress - p) * el, p) ELSE @]

\* if (progress.status === "running") { ... }: inc is Math.random() * 5,
\* roll is Math.random() < 0.1
Advance(progress, currentTime, inc, roll) ==
    IF progress.status = "running"
    THEN LET p == Min(MaxProgress, progress.progress + inc)
             el == Elapsed(progress, currentTime)
             done == ~(p < CompleteThreshold)
             label == StepLabel(p)
             lg == IF roll
                   THEN Append(progress.logs,
                               [timestamp |-> currentTime, level |-> "info",
                                message |-> "Progress update"])
                   ELSE progress.logs
         IN  [progress EXCEPT
                !.progress = p,
                !.currentStep = label,
                !.status = IF done THEN "completed" ELSE "running",
                !.logs = lg,
                !.hasEta = IF p > EtaFloor THEN TRUE ELSE @,
                !.estimatedTimeRemaining =
                    IF p > EtaFloor THEN Round((MaxProgress - p) * el, p) ELSE @]
    ELSE progress

\* the body of updateTaskProgress after its await, on the stored record
UpdateRecord(progress, currentTime, inc, roll) ==
    Advance(StartIfDue(progress, currentTime), currentTime, inc, roll)

\* this.emit(`task-${taskId}-completed`) happens in the tick that completes
Emits(progress, currentTime, inc, roll) ==
    LET started == StartIfDue(progress, currentTime)
    IN  started.status = "running"
        /\ UpdateRecord(progress, currentTime, inc, roll).status = "completed"

TypeOK ==
    /\ activeMonitors \subseteq TaskIds
    /\ intervals \in [TaskIds -> Nat]
    /\ DOMAIN progressData \subseteq TaskIds
    /\ \A id \in DOMAIN progressData :
          progressData[id].status \in {"pending", "running", "completed", "failed"}
    /\ listeners \in [TaskIds -> Nat]
    /\ inflight \in [TaskIds -> 0..MaxInflight]
    /\ graceTimers \in [TaskIds -> Nat]
    /\ emitted \in [TaskIds -> Nat]
    /\ fired \in [TaskIds -> BOOLEAN]
    /\ now \in 1..MaxTime
    /\ session \in [TaskIds -> 0..MaxSessions]
    /\ exited \in BOOLEAN

\* nothing rendered, the script not started, no toast mounted
BarIdle == bar = [progress10 |-> 0, filled |-> 0, empty |-> 0, drawn |-> FALSE]

\* checked and passed are history: the calls of check_criterion made and the
\* checks that succeeded; production_ready is the field of the JSON output;
\* exit is the exit status, -1 while the script runs
OpsIdle == ops = [checked |-> 0, passed |-> 0, SCORE |-> 0, PERCENTAGE |-> 0,
                  PRODUCTION_READY |-> 0, production_ready |-> FALSE,
                  exit |-> -1]

\* timer is the time left of the pending setTimeout, -1 when there is none;
\* onClose is the identity of the callback prop; age, timerCalls, clickCalls
\* and lateCalls are history: the seconds since the mount, the calls of
\* onClose by the timer and by the button since the mount, and the calls by
\* the timer while unmounted
ToastIdle == toast = [mounted |-> FALSE, timer |-> -1, onClose |-> 0,
                      age |-> 0, timerCalls |-> 0, clickCalls |-> 0,
                      lateCalls |-> 0]

\* the TaskMonitor after its construction
MonitorInit ==
    /\ activeMonitors = {}
    /\ intervals = [id \in TaskIds |-> 0]
    /\ progressData = <<>>
    /\ listeners = [id \in TaskIds |-> 0]
    /\ inflight = [id \in TaskIds |-> 0]
    /\ graceTimers = [id \in TaskIds |-> 0]
    /\ emitted = [id \in TaskIds |-> 0]
    /\ fired = [id \in TaskIds |-> FALSE]
    /\ now = 1
    /\ session = [id \in TaskIds |-> 0]
    /\ startedAt = [id \in TaskIds |-> 0]
    /\ exited = FALSE
    /\ lastOp = <<"init", "", "">>

Init == MonitorInit /\ BarIdle /\ OpsIdle /\ ToastIdle

\* ------------------------------------------------------------ operations

\* (variant: the registry is cleared instead of the one key being deleted)
StopMonitoringClear(am, id) == {}

\* stopMonitoring(taskId) on the timer registry: clearInterval of the stored
\* handle and removal of the key, only when the key is present
StopMonitoringActive(am, id) == am \ {id}

\* (variant: the key is deleted and clearInterval is forgotten)
StopMonitoringNoClear(am, iv, id) == iv

\* (variant: the stop clears the interval of every id)
StopMonitoringAllTimers(am, iv, id) ==
    IF id \in am THEN [x \in DOMAIN iv |-> 0] ELSE iv

StopMonitoringIntervals(am, iv, id) ==
    IF id \in am THEN [iv EXCEPT ![id] = @ - 1] ELSE iv

\* (variant: startMonitoring without its "already monitoring" return)
StartMonitoringUnguarded(id) ==
    /\ ~exited /\ UNCHANGED <<exited, aux>>
    /\ session[id] < MaxSessions
    /\ progressData' = [x \in DOMAIN progressData \cup {id} |->
                          IF x = id THEN FreshProgress ELSE progressData[x]]
    /\ intervals' = [intervals EXCEPT ![id] = @ + 1]
    /\ activeMonitors' = activeMonitors \cup {id}
    /\ listeners' = [listeners EXCEPT ![id] = @ + 1]
    /\ session' = [session EXCEPT ![id] = @ + 1]
    /\ startedAt' = [startedAt EXCEPT ![id] = now]
    /\ fired' = [fired EXCEPT ![id] = TRUE]
    /\ lastOp' = <<"start", id, "started">>
    /\ UNCHANGED <<inflight, graceTimers, emitted, now>>

\* startMonitoring(taskId)
StartMonitoring(id) ==
    /\ ~exited /\ UNCHANGED <<exited, aux>>
    /\ IF id \in activeMonitors
       THEN /\ lastOp' = <<"start", id, "already">>
            /\ UNCHANGED <<activeMonitors, intervals, progressData, listeners,
                           inflight, graceTimers, emitted, fired, now, session,
                           startedAt>>
       ELSE /\ session[id] < MaxSessions
            /\ progressData' = [x \in DOMAIN progressData \cup {id} |->
                                  IF x = id THEN FreshProgress
                                            ELSE progressData[x]]
            /\ intervals' = [intervals EXCEPT ![id] = @ + 1]
            /\ activeMonitors' = activeMonitors \cup {id}
            /\ listeners' = [listeners EXCEPT ![id] = @ + 1]
            /\ session' = [session EXCEPT ![id] = @ + 1]
            /\ startedAt' = [startedAt EXCEPT ![id] = now]
            /\ fired' = [fired EXCEPT ![id] = TRUE]
            /\ lastOp' = <<"start", id, "started">>
            /\ UNCHANGED <<inflight, graceTimers, emitted, now>>

\* the interval of id fires: the async callback runs up to the
\* await DatabaseManager.getInstance() of updateTaskProgress
TimerFire(id) ==
    /\ ~exited /\ UNCHANGED <<exited, aux>>
    /\ intervals[id] > 0
    /\ ~fired[id]
    /\ inflight[id] < MaxInflight
    /\ inflight' = [inflight EXCEPT ![id] = @ + 1]
    /\ fired' = [fired EXCEPT ![id] = TRUE]
    /\ lastOp' = <<"fire", id, "">>
    /\ UNCHANGED <<activeMonitors, intervals, progressData, listeners,
                   graceTimers, emitted, now, session, startedAt>>

\* (variant: the catch branch logs the error and lets the timer go on)
TickErrorAbsorb(id) ==
    /\ ~exited /\ UNCHANGED <<exited, aux>>
    /\ inflight[id] > 0
    /\ inflight' = [inflight EXCEPT ![id] = @ - 1]
    /\ lastOp' = <<"tick", id, IF id \in activeMonitors THEN "error-stop"
                                                        ELSE "error-noop">>
    /\ UNCHANGED <<activeMonitors, intervals, progressData, listeners,
                   graceTimers, emitted, fired, now, session, startedAt>>

\* (variant: the catch branch also marks the task failed)
TickErrorFails(id) ==
    /\ ~exited /\ UNCHANGED <<exited, aux>>
    /\ inflight[id] > 0
    /\ inflight' = [inflight EXCEPT ![id] = @ - 1]
    /\ activeMonitors' = StopMonitoringActive(activeMonitors, id)
    /\ intervals' = StopMonitoringIntervals(activeMonitors, intervals, id)
    /\ progressData' = [x \in DOMAIN progressData |->
                          IF x = id THEN [progressData[x] EXCEPT !.status = "failed"]
                                    ELSE progressData[x]]
    /\ lastOp' = <<"tick", id, IF id \in activeMonitors THEN "error-stop"
                                                        ELSE "error-noop">>
    /\ UNCHANGED <<listeners, graceTimers, emitted, fired, now, session,
                   startedAt>>

\* the await of a suspended tick of id rejects: the catch branch
TickError(id) ==
    /\ ~exited /\ UNCHANGED <<exited, aux>>
    /\ inflight[id] > 0
    /\ inflight' = [inflight EXCEPT ![id] = @ - 1]
    /\ activeMonitors' = StopMonitoringActive(activeMonitors, id)
    /\ intervals' = StopMonitoringIntervals(activeMonitors, intervals, id)
    /\ lastOp' = <<"tick", id, IF id \in activeMonitors THEN "error-stop"
                                                        ELSE "error-noop">>
    /\ UNCHANGED <<progressData, listeners, graceTimers, emitted, fired, now,
                   session, startedAt>>

\* the await of a suspended tick of id resolves: the rest of
\* updateTaskProgress, then displayProgress
TickResumeWith(id, incs) ==
    /\ ~exited /\ UNCHANGED <<exited, aux>>
    /\ inflight[id] > 0
    /\ inflight' = [inflight EXCEPT ![id] = @ - 1]
    /\ IF id \notin DOMAIN progressData
       THEN /\ lastOp' = <<"tick", id, "norecord">>
            /\ UNCHANGED <<activeMonitors, intervals, progressData, listeners,
                           graceTimers, emitted>>
       ELSE \E inc \in incs, roll \in BOOLEAN :
            LET old == progressData[id]
                canLog == Len(old.logs) <= MaxLog
                new == UpdateRecord(old, now, inc, roll /\ canLog)
                emit == Emits(old, now, inc, roll /\ canLog)
                heard == emit /\ listeners[id] > 0
            IN  /\ progressData' = [progressData EXCEPT ![id] = new]
                /\ emitted' = [emitted EXCEPT ![id] = IF emit THEN @ + 1 ELSE @]
                /\ listeners' = [listeners EXCEPT ![id] = IF emit THEN 0 ELSE @]
                /\ activeMonitors' =
                      IF heard THEN StopMonitoringActive(activeMonitors, id)
                               ELSE activeMonitors
                /\ intervals' =
                      IF heard
                      THEN StopMonitoringIntervals(activeMonitors, intervals, id)
                      ELSE intervals
                /\ graceTimers' =
                      [graceTimers EXCEPT ![id] =
                          IF new.status \in {"completed", "failed"}
                          THEN @ + 1 ELSE @]
                /\ lastOp' = <<"tick", id, new.status>>
    /\ UNCHANGED <<fired, now, session, startedAt>>

TickResume(id) == TickResumeWith(id, Increments)

\* the callback of setTimeout(() => this.stopMonitoring(taskId), 3000) that
\* displayProgress schedules for a completed or failed record
GraceFire(id) ==
    /\ ~exited /\ UNCHANGED <<exited, aux>>
    /\ graceTimers[id] > 0
    /\ graceTimers' = [graceTimers EXCEPT ![id] = @ - 1]
    /\ activeMonitors' = StopMonitoringActive(activeMonitors, id)
    /\ intervals' = StopMonitoringIntervals(activeMonitors, intervals, id)
    /\ lastOp' = <<"grace", id, "">>
    /\ UNCHANGED <<progressData, listeners, inflight, emitted, fired, now,
                   session, startedAt>>

\* (variant: the forEach ends after the first key it stops)
StopAllMonitoringFirstOnly ==
    /\ ~exited /\ UNCHANGED <<exited, aux>>
    /\ LET first == IF activeMonitors = {} THEN {}
                    ELSE {CHOOSE id \in activeMonitors : TRUE}
       IN  /\ activeMonitors' = activeMonitors \ first
           /\ intervals' = [id \in TaskIds |->
                               IF id \in first THEN intervals[id] - 1
                                               ELSE intervals[id]]
    /\ lastOp' = <<"stopAll", "",
                   IF activeMonitors = {} THEN "none"
                   ELSE IF activeMonitors = TaskIds THEN "all" ELSE "some">>
    /\ UNCHANGED <<progressData, listeners, inflight, graceTimers, emitted,
                   fired, now, session, startedAt>>

\* stopAllMonitoring(): stopMonitoring for every key of activeMonitors
StopAllMonitoring ==
    /\ ~exited /\ UNCHANGED <<exited, aux>>
    /\ activeMonitors' = {}
    /\ intervals' = [id \in TaskIds |->
                        StopMonitoringIntervals(activeMonitors, intervals, id)[id]]
    /\ lastOp' = <<"stopAll", "",
                   IF activeMonitors = {} THEN "none"
                   ELSE IF activeMonitors = TaskIds THEN "all" ELSE "some">>
    /\ UNCHANGED <<progressData, listeners, inflight, graceTimers, emitted,
                   fired, now, session, startedAt>>

\* one second passes; the clock reading saturates at MaxTime
ClockTick ==
    /\ ~exited /\ UNCHANGED <<exited, aux>>
    /\ now' = Min(MaxTime, now + 1)
    /\ fired' = [id \in TaskIds |-> FALSE]
    /\ lastOp' = <<"clock", "", "">>
    /\ UNCHANGED <<activeMonitors, intervals, progressData, listeners, inflight,
                   graceTimers, emitted, session, startedAt>>

\* process.on("SIGINT"): stopAllMonitoring(), then process.exit(0)
Sigint ==
    /\ ~exited
    /\ exited' = TRUE
    /\ activeMonitors' = {}
    /\ intervals' = [id \in TaskIds |->
                        StopMonitoringIntervals(activeMonitors, intervals, id)[id]]
    /\ lastOp' = <<"exit", "", "sigint">>
    /\ UNCHANGED aux
    /\ UNCHANGED <<progressData, listeners, inflight, graceTimers, emitted,
                   fired, now, session, startedAt>>

\* the catch of the wizard action: process.exit(1)
WizardError ==
    /\ ~exited
    /\ exited' = TRUE
    /\ lastOp' = <<"exit", "", "error">>
    /\ UNCHANGED aux
    /\ UNCHANGED <<activeMonitors, intervals, progressData, listeners, inflight,
                   graceTimers, emitted, fired, now, session, startedAt>>

Next ==
    \/ \E id \in TaskIds : StartMonitoring(id)
    \/ \E id \in TaskIds : TimerFire(id)
    \/ \E id \in TaskIds : TickResume(id)
    \/ \E id \in TaskIds : TickError(id)
    \/ StopAllMonitoring
    \/ ClockTick
    \/ Sigint
    \/ WizardError

Spec == Init /\ [][Next]_vars

\* No grace timeout is ever pending (see NoGraceTimer), so GraceFire is never
\* enabled and Next leaves it out; NextGrace is Next with it.
NextGrace == Next \/ \E id \in TaskIds : GraceFire(id)

SpecGrace == Init /\ [][NextGrace]_vars

NoGraceTimer == \A id \in TaskIds : graceTimers[id] = 0

\* Timers and awaited promises are served, the status fetch never rejects,
\* nobody stops the monitor and every increment is strictly positive.
PositiveIncrements == Increments \ {0}

NextLive ==
    \/ \E id \in TaskIds : StartMonitoring(id)
    \/ \E id \in TaskIds : TimerFire(id)
    \/ \E id \in TaskIds : TickResumeWith(id, PositiveIncrements)
    \/ ClockTick

LiveSpec ==
    /\ Init
    /\ [][NextLive]_vars
    /\ WF_vars(ClockTick)
    /\ \A id \in TaskIds : WF_vars(TimerFire(id))
    /\ \A id \in TaskIds : WF_vars(TickResumeWith(id, PositiveIncrements))

\* ------------------------------------------------ the progress bar
\* displayProgress draws the bar from progress.progress alone. The values are
\* taken in steps of 1/BarResolution percent: bar.progress10 is the progress
\* times BarResolution.

BarResolution == 10

\* const barLength = 40
barLength == 40

BarInputs == 0..(MaxProgress * BarResolution)

\* (variant: the filled length is rounded down)
filledLengthFloor(p) == (p * barLength) \div (MaxProgress * BarResolution)

\* Math.round((progress.progress / 100) * barLength)
filledLength(p) == Round(p * barLength, MaxProgress * BarResolution)

\* barLength - filledLength
emptyLength(p) == barLength - filledLength(p)

BarInit ==
    /\ MonitorInit /\ OpsIdle /\ ToastIdle
    /\ bar \in [progress10 : BarInputs, filled : {0}, empty : {0},
                drawn : {FALSE}]

\* the bar part of displayProgress, for the progress value of the record
DisplayProgressBar ==
    /\ ~bar.drawn
    /\ bar' = [bar EXCEPT !.filled = filledLength(bar.progress10),
                          !.empty = emptyLength(bar.progress10),
                          !.drawn = TRUE]
    /\ UNCHANGED <<monitorVars, ops, toast>>

\* progress.progress = Math.min(100, progress.progress + Math.random() * 5):
\* the value grows by less than 5 and the bar on the screen is the old one
\* until the next render
BarAdvance(inc) ==
    /\ bar.drawn
    /\ bar.progress10 < MaxProgress * BarResolution
    /\ bar' = [bar EXCEPT
                 !.progress10 = Min(MaxProgress * BarResolution, @ + inc),
                 !.drawn = FALSE]
    /\ UNCHANGED <<monitorVars, ops, toast>>

BarNext ==
    \/ DisplayProgressBar
    \/ \E inc \in 0..(5 * BarResolution - 1) : BarAdvance(inc)

BarSpec == BarInit /\ [][BarNext]_vars

\* ------------------------------------- scripts/ci/ops-readiness.sh
\* The script runs its criteria in order, each through check_criterion, then
\* computes the percentage and the gate. jq, mkdir and mv are taken to succeed.

TOTAL == 20          \* TOTAL=20
NumCriteria == 20    \* the calls of check_criterion in the script
CriterionWeight == 1 \* the third argument of every call
GatePercentage == 95 \* [[ $PERCENTAGE -ge 95 ]]

\* (variant: the gate needs more than 95 percent)
GatePassesStrict(percentage) == percentage > GatePercentage

\* [[ $PERCENTAGE -ge 95 ]]
GatePasses(percentage) == percentage >= GatePercentage

OpsInit == MonitorInit /\ BarIdle /\ ToastIdle /\ OpsIdle

\* check_criterion name command weight description: pass is the outcome of
\* eval "$command"
check_criterion(pass, weight) ==
    /\ ops.exit = -1
    /\ ops.checked < NumCriteria
    /\ ops' = [ops EXCEPT
                 !.checked = @ + 1,
                 !.passed = IF pass THEN @ + 1 ELSE @,
                 !.SCORE = IF pass THEN @ + weight ELSE @]
    /\ UNCHANGED <<monitorVars, bar, toast>>

\* the lines after the last criterion: percentage, JSON update, gate, exit
OpsGate ==
    /\ ops.exit = -1
    /\ ops.checked = NumCriteria
    /\ LET percentage == (ops.SCORE * 100) \div TOTAL
           ready == IF GatePasses(percentage) THEN 1 ELSE 0
       IN  ops' = [ops EXCEPT
                     !.PERCENTAGE = percentage,
                     !.PRODUCTION_READY = ready,
                     !.production_ready = (ready = 1),
                     !.exit = IF GatePasses(percentage) THEN 0 ELSE 1]
    /\ UNCHANGED <<monitorVars, bar, toast>>

OpsNext ==
    \/ \E pass \in BOOLEAN : check_criterion(pass, CriterionWeight)
    \/ OpsGate

OpsSpec == OpsInit /\ [][OpsNext]_vars

\* ------------------------------------------------ NotificationToast
\* One toast: its effect sets a timer at mount and again whenever id or
\* onClose changes between renders, after the cleanup of the previous run.

MaxToastAge == 8
MaxToastCalls == 2

ToastDelay == 5           \* setTimeout(..., 5000), in seconds
ToastCallbacks == {0, 1}  \* the function objects the parent passes as onClose

ToastInit == MonitorInit /\ BarIdle /\ OpsIdle /\ ToastIdle

\* first render and first run of the effect
ToastMount(cb) ==
    /\ ~toast.mounted
    /\ toast' = [toast EXCEPT !.mounted = TRUE, !.timer = ToastDelay,
                              !.onClose = cb, !.age = 0,
                              !.timerCalls = 0, !.clickCalls = 0]
    /\ UNCHANGED <<monitorVars, bar, ops>>

\* a later render with the prop onClose = cb: the dependency list
\* [id, onClose] makes the effect clean up and run again when cb is new
ToastRerender(cb) ==
    /\ toast.mounted
    /\ toast' = IF cb = toast.onClose
                THEN toast
                ELSE [toast EXCEPT !.timer = ToastDelay, !.onClose = cb]
    /\ UNCHANGED <<monitorVars, bar, ops>>

\* the callback of setTimeout: onClose(id)
ToastTimeout ==
    /\ toast.timer = 0
    /\ toast.timerCalls < MaxToastCalls
    /\ toast' = [toast EXCEPT
                   !.timer = -1,
                   !.timerCalls = IF toast.mounted THEN @ + 1 ELSE @,
                   !.lateCalls = IF toast.mounted THEN @ ELSE @ + 1]
    /\ UNCHANGED <<monitorVars, bar, ops>>

\* the close button: onClick={() => onClose(id)}
ToastClick ==
    /\ toast.mounted
    /\ toast.clickCalls < MaxToastCalls
    /\ toast' = [toast EXCEPT !.clickCalls = @ + 1]
    /\ UNCHANGED <<monitorVars, bar, ops>>

\* the parent removes the toast: the cleanup of the effect runs
ToastUnmount ==
    /\ toast.mounted
    /\ toast' = [toast EXCEPT !.mounted = FALSE, !.timer = -1]
    /\ UNCHANGED <<monitorVars, bar, ops>>

\* one second passes; a timer that is due fires before more time passes
ToastClock ==
    /\ toast.mounted
    /\ toast.timer # 0
    /\ toast.age < MaxToastAge
    /\ toast' = [toast EXCEPT !.age = @ + 1,
                              !.timer = IF @ > 0 THEN @ - 1 ELSE @]
    /\ UNCHANGED <<monitorVars, bar, ops>>

ToastNext ==
    \/ \E cb \in ToastCallbacks : ToastMount(cb)
    \/ \E cb \in ToastCallbacks : ToastRerender(cb)
    \/ ToastTimeout
    \/ ToastClick
    \/ ToastUnmount
    \/ ToastClock

ToastSpec == ToastInit /\ [][ToastNext]_vars

\* ---------------------------------------------------------------- claims

HasRecord(id) == id \in DOMAIN progressData

\* a tick of id has just run to its end without an error, at the time `now`
TickedOk(id) ==
    /\ lastOp[1] = "tick" /\ lastOp[2] = id
    /\ lastOp[3] \in {"pending", "running", "completed", "failed"}

\* Every record the monitor holds is as startMonitoring created it: the
\* elapsed time of a record with an empty log is 0, so no tick takes the
\* pending branch, and the running branch is never entered.
StatusStaysPending ==
    \A id \in DOMAIN progressData : progressData[id] = FreshProgress

NothingEmitted == \A id \in TaskIds : emitted[id] = 0

\* C2: a tick that runs on a monitored task more than StartThreshold seconds
\* after monitoring began leaves the task out of pending.
C2_StartsAfterThreshold ==
    \A id \in activeMonitors :
        (TickedOk(id) /\ session[id] = 1 /\ now - startedAt[id] > StartThreshold)
            => progressData[id].status # "pending"

\* C3: with fair ticks, no tick error, no stop request and positive
\* increments, every monitored task eventually is completed and no longer in
\* the active set.
C3_EventuallyCompleted ==
    \A id \in TaskIds :
        (id \in activeMonitors)
            ~> (HasRecord(id) /\ progressData[id].status = "completed"
                /\ id \notin activeMonitors)

\* C5: a startMonitoring(id) for an id that is already monitored changes
\* nothing, and every monitored id has exactly one live timer and a record.
C5_StartIdempotent ==
    /\ [](\A id \in activeMonitors : intervals[id] = 1 /\ HasRecord(id))
    /\ [][\A id \in TaskIds :
            (id \in activeMonitors /\ lastOp' = <<"start", id, "already">>)
                => UNCHANGED <<activeMonitors, intervals, progressData,
                               listeners, inflight, graceTimers, emitted>>]_vars

\* C5 witness: startMonitoring was called for an id that is being monitored
\* and has already been ticked
C5_Witness ==
    \E id \in activeMonitors :
        lastOp = <<"start", id, "already">> /\ inflight[id] > 0

\* C9: progress records exist only for the ids that are in the timer
\* registry: a stop removes the id from both.
C9_RecordsOnlyForActive ==
    \A id \in TaskIds :
        /\ HasRecord(id) => id \in activeMonitors
        /\ id \notin activeMonitors => intervals[id] = 0

\* C10: the stopMonitoring(id) of a failing tick whose id is not in the timer
\* registry leaves the registry, the timers and every record as they were.
C10_StopUnmonitoredNoop ==
    [][\A id \in TaskIds :
          (id \notin activeMonitors /\ lastOp' = <<"tick", id, "error-noop">>)
              => UNCHANGED <<activeMonitors, intervals, progressData>>]_vars

\* C10 witness: such a stop has run while another id was being monitored
C10_Witness ==
    \E id \in TaskIds :
        /\ lastOp = <<"tick", id, "error-noop">>
        /\ id \notin activeMonitors
        /\ activeMonitors # {}

\* a tick of id has just failed: its await rejected and the catch branch ran
TickFailed(op, id) ==
    op[1] = "tick" /\ op[2] = id /\ op[3] \in {"error-stop", "error-noop"}

\* C11: a stopAllMonitoring() leaves no id in the timer registry and no live
\* interval, and one that follows another changes nothing.
C11_StopAllLeavesNoTimer ==
    [][lastOp'[1] = "stopAll"
          => /\ activeMonitors' = {}
             /\ \A id \in TaskIds : intervals'[id] = 0
             /\ lastOp[1] = "stopAll"
                   => UNCHANGED <<activeMonitors, intervals, progressData,
                                  listeners, inflight, graceTimers, emitted>>]_vars

\* C11 witness: stopAllMonitoring() has stopped every id of TaskIds at once
C11_Witness == lastOp = <<"stopAll", "", "all">>

\* C12: the interval callback of an id starts only while the id is in the
\* timer registry: after a stop, also one made by the catch branch of the
\* id's own tick, no tick fires until startMonitoring registers it again.
C12_NoTickAfterStop ==
    [][\A id \in TaskIds :
          lastOp' = <<"fire", id, "">> => id \in activeMonitors]_vars

\* C12 witness: an id was stopped by its own tick, a second has passed since
\* and its interval is gone
C12_Witness ==
    \E id \in TaskIds :
        /\ lastOp[1] = "clock"
        /\ session[id] > 0 /\ id \notin activeMonitors
        /\ ~fired[id] /\ intervals[id] = 0
        /\ inflight[id] < MaxInflight

C14_FailedAfterFailures ==
    \A id \in TaskIds :
        (TickFailed(lastOp, id) /\ id \notin activeMonitors /\ HasRecord(id))
            => progressData[id].status = "failed" /\ emitted[id] = 1

\* C15: the empty task id is never monitored: it gets neither a timer nor a
\* record.
C15_EmptyIdRejected ==
    /\ "" \notin activeMonitors
    /\ ~HasRecord("")
    /\ intervals[""] = 0

\* C16: every startMonitoring(id) that begins a session, also after an earlier
\* session of the id, stores a record with status pending, progress 0, an
\* empty log and no estimatedTimeRemaining.
C16_FreshSession ==
    [][\A id \in TaskIds :
          lastOp' = <<"start", id, "started">>
              => /\ id \in DOMAIN progressData'
                 /\ progressData'[id].status = "pending"
                 /\ progressData'[id].progress = 0
                 /\ progressData'[id].logs = <<>>
                 /\ ~progressData'[id].hasEta]_vars

\* C16 witness: a second session of an id has just begun, a tick of the first
\* one still in flight
C16_Witness ==
    \E id \in TaskIds :
        /\ lastOp = <<"start", id, "started">>
        /\ session[id] = 2
        /\ inflight[id] > 0

\* C17: once the process has exited, no id is in the timer registry and no
\* interval is live.
C17_NoTimerAtExit ==
    exited => /\ activeMonitors = {}
              /\ \A id \in TaskIds : intervals[id] = 0

\* C18: at most one tick callback of an id is between its start and its end.
C18_NoOverlappingTicks == \A id \in TaskIds : inflight[id] <= 1

\* C19: a tick of an id, successful or failing (with its stopMonitoring),
\* leaves the registration, the interval and the record of every other id
\* as they were.
C19_TasksIsolated ==
    [][\A a \in TaskIds :
          (lastOp'[1] = "tick" /\ lastOp'[2] = a)
              => \A b \in TaskIds \ {a} :
                    /\ (b \in activeMonitors') = (b \in activeMonitors)
                    /\ intervals'[b] = intervals[b]
                    /\ HasRecord(b) => /\ b \in DOMAIN progressData'
                                       /\ progressData'[b] = progressData[b]]_vars

\* C19 witness: a failing tick has stopped one id while the other one is
\* monitored, with a tick of its own in flight
C19_Witness ==
    \E a \in TaskIds :
        /\ lastOp = <<"tick", a, "error-stop">>
        /\ \E b \in activeMonitors \ {a} : inflight[b] > 0 /\ intervals[b] = 1

\* C20: a failing tick leaves the status of its task as it was.
C20_FailingTickKeepsStatus ==
    [][\A id \in TaskIds :
          (TickFailed(lastOp', id) /\ HasRecord(id))
              => /\ id \in DOMAIN progressData'
                 /\ progressData'[id].status = progressData[id].status]_vars

\* C20 witness: a tick has failed on a pending task, another tick of it
\* still in flight
C20_Witness ==
    \E id \in TaskIds :
        /\ TickFailed(lastOp, id)
        /\ inflight[id] > 0
        /\ HasRecord(id) /\ progressData[id].status = "pending"

\* C22: progressPercent is updated only while the task is running: it is 0 in
\* every state where the status is pending, and no tick changes it once the
\* status is completed or failed.
C22_ProgressOnlyWhileRunning ==
    /\ [](\A id \in DOMAIN progressData :
            progressData[id].status = "pending" => progressData[id].progress = 0)
    /\ [][\A id \in DOMAIN progressData :
            (progressData[id].status \in {"completed", "failed"}
             /\ lastOp'[1] = "tick")
                => /\ id \in DOMAIN progressData'
                   /\ progressData'[id].progress = progressData[id].progress]_vars

\* C22 witness: a tick has run to its end on a monitored task that is still
\* pending, later than the start threshold after monitoring began
C22_Witness ==
    \E id \in activeMonitors :
        /\ TickedOk(id)
        /\ now - startedAt[id] > StartThreshold
        /\ progressData[id].status = "pending" /\ progressData[id].progress = 0

\* C26: a task's log is empty exactly when its status is pending; the first
\* entry is the one the tick that starts the task appends, and the elapsed
\* time ticks use is measured from that entry's timestamp, and is zero while
\* the log is empty.
C26_LogEmptyIffPending ==
    \A id \in DOMAIN progressData :
        LET r == progressData[id]
        IN  /\ (r.logs = <<>>) <=> (r.status = "pending")
            /\ r.logs = <<>> => Elapsed(r, now) = 0
            /\ r.logs # <<>> =>
                  /\ r.logs[1].message = "Task execution started"
                  /\ Elapsed(r, now) = now - r.logs[1].timestamp

\* C26 witness: a tick has run on a record with an empty log, a second or more
\* after the record was created: the elapsed time it used was zero
C26_Witness ==
    \E id \in DOMAIN progressData :
        /\ TickedOk(id)
        /\ now - startedAt[id] >= 1
        /\ progressData[id].logs = <<>>
        /\ Elapsed(progressData[id], now) = 0

\* C25: only events of the current session end or alter it. A session that
\* startMonitoring began within the current second has not had a tick of its
\* own (its interval first fires a second later), so every tick that ends
\* while it is that young is a leftover of an earlier session of the id: such
\* a tick neither cancels the session's timer nor changes its record.
C25_LeftoverLeavesNewSession ==
    [][\A id \in activeMonitors :
        (/\ startedAt[id] = now /\ now < MaxTime
         /\ lastOp'[1] = "tick" /\ lastOp'[2] = id)
            => /\ id \in activeMonitors'
               /\ intervals'[id] = intervals[id]
               /\ progressData'[id] = progressData[id]]_vars

\* C27: at most one listener of task-<id>-completed is registered at any
\* time, for every id.
C27_OneCompletionListener == \A id \in TaskIds : listeners[id] <= 1

\* C28: once stopMonitoring(id) has removed id from the active set, no tick
\* of id goes on to update or render the record, or to call stopMonitoring
\* again, until the next startMonitoring(id).
C28_NoTickOnStoppedId ==
    [][\A id \in DOMAIN progressData :
        id \notin activeMonitors
            => ~(lastOp'[1] = "tick" /\ lastOp'[2] = id)]_vars

\* C24: for every progress value p of [0, 100] the rendered bar has width 40:
\* filled is p * 40 / 100 rounded to the nearest integer (a half rounds up),
\* empty is 40 - filled, 0 <= filled <= 40 and empty >= 0, filled is 0 at
\* p = 0 and 40 at p = 100, and filled does not decrease when p grows.
C24_BarProportional ==
    /\ [](bar.drawn =>
            LET p == bar.progress10
                d == MaxProgress * BarResolution
            IN  /\ (2 * bar.filled - 1) * d <= 2 * p * 40
                /\ 2 * p * 40 < (2 * bar.filled + 1) * d
                /\ bar.empty = 40 - bar.filled
                /\ bar.filled + bar.empty = 40
                /\ 0 <= bar.filled /\ bar.filled <= 40 /\ bar.empty >= 0
                /\ (p = 0 => bar.filled = 0)
                /\ (p = d => bar.filled = 40))
    /\ [][bar'.progress10 >= bar.progress10 => bar'.filled >= bar.filled]_vars

\* C24 witness: a bar drawn for a value strictly between two cells, after
\* the value has grown since the previous render
C24_Witness ==
    /\ bar.drawn
    /\ bar.progress10 = 63 * BarResolution + 1
    /\ bar.filled = 25 /\ bar.empty = 15

\* C29: SCORE is the number of criteria whose check passed, between 0 and
\* TOTAL = 20; when the script has ended, PERCENTAGE is SCORE * 100 / TOTAL
\* by integer division, and production_ready is true and the exit status 0
\* exactly when PERCENTAGE >= 95, which is exactly when at least 19 of the
\* 20 criteria passed; otherwise production_ready is false and the exit
\* status is 1.
C29_GateAtNineteen ==
    /\ ops.SCORE = ops.passed
    /\ 0 <= ops.SCORE /\ ops.SCORE <= 20
    /\ ops.exit = -1 => ~ops.production_ready
    /\ ops.exit # -1 =>
          /\ ops.checked = 20
          /\ ops.PERCENTAGE = (ops.SCORE * 100) \div 20
          /\ ops.exit \in {0, 1}
          /\ (ops.exit = 0) <=> (ops.PERCENTAGE >= 95)
          /\ (ops.exit = 0) <=> (ops.passed >= 19)
          /\ ops.production_ready <=> (ops.exit = 0)

\* C29 witness: the script has ended with exactly 19 of the 20 checks passed
C29_Witness == ops.exit = 0 /\ ops.passed = 19 /\ ops.production_ready

\* C30: a toast that has stayed mounted for more than 5 seconds has had
\* onClose(id) called by its timer, whatever onClose callbacks it was
\* re-rendered with in the meantime; an unmounted toast has no pending timer
\* and its timer never calls onClose.
C30_DismissedFiveSecondsAfterMount ==
    /\ (toast.mounted /\ toast.age > 5) => toast.timerCalls >= 1
    /\ ~toast.mounted => (toast.timer = -1 /\ toast.lateCalls = 0)

====
